---- MODULE Spec2Model ----
(***************************************************************************)
(* Model of the tool-call webhook backend in src/app.py: ten POST          *)
(* handlers over three SQLite tables (todos, reminders, calendar_events).  *)
(* A request is the list message.toolCalls; a handler scans it for the     *)
(* first call whose function name is its own, reads that call's arguments, *)
(* performs one storage operation and answers with a result envelope or an *)
(* HTTP error.                                                             *)
(***************************************************************************)
EXTENDS Integers, Sequences, FiniteSets, TLC

VARIABLES
    todos,            \* rows of table todos
    reminders,        \* rows of table reminders
    calendar_events,  \* rows of table calendar_events
    req,              \* the request being handled: [endpoint, toolCalls]
    resp,             \* the response to the request handled last
    dbCalls,          \* the session calls that request made, in order
    served,           \* history: what the request handled last was
    created,          \* history: successful creates per table
    deleted,          \* history: successful deletes per table
    assigned,         \* history: ids ever given to a row, per table
    completing,       \* history: the id the last request completed, else 0
    repeat,           \* history: the last two requests completed the same id
    sess              \* concurrent delete requests, per worker

vars == <<todos, reminders, calendar_events, req, resp, dbCalls, served,
          created, deleted, assigned, completing, repeat, sess>>

tables == <<todos, reminders, calendar_events>>

-----------------------------------------------------------------------------
(* Bounds of the model *)

\* successful creates over all tables in one history
MaxCreates == 3
\* tool calls in one request
MaxCalls == 2

-----------------------------------------------------------------------------
(* Python values *)

\* None: what dict.get returns for a missing key, and a JSON null
PyNone == "<None>"

\* `not v` for a str-or-None value
Falsy(v) == v = PyNone \/ v = ""

\* {} : a dict without keys
EmptyArgs == [k \in {} |-> PyNone]

\* args.get(k, default)
Get(args, k, default) == IF k \in DOMAIN args THEN args[k] ELSE default

\* ToolCallFunction.arguments is a dict or a str holding JSON text:
\* json.dumps(d) as the caller sends it, isinstance(args, str), json.loads(args)
JsonText(d) == [json |-> d]
IsStr(arguments) == DOMAIN arguments = {"json"}
Loads(arguments) == arguments["json"]

\* `if isinstance(args, str): args = json.loads(args)`
Arguments(tool_call) ==
    IF IsStr(tool_call.function.arguments)
    THEN Loads(tool_call.function.arguments)
    ELSE tool_call.function.arguments

\* `not args.get('id')`: the key is missing or the id is 0
NoId(args) == ~("id" \in DOMAIN args) \/ args["id"] = 0

\* dt.datetime.fromisoformat(s) raises ValueError
IsoDates == {"2024-01-01T10:00:00", "2024-01-01T11:00:00"}
BadIso(s) == s \notin IsoDates

\* dt.datetime.fromisoformat on the strings it accepts
FromIso(s) ==
    CASE s = "2024-01-01T10:00:00" -> <<2024, 1, 1, 10, 0, 0>>
      [] s = "2024-01-01T11:00:00" -> <<2024, 1, 1, 11, 0, 0>>

\* the try block of add_calendar_entry: both datetimes, or <<>> on ValueError
\* (ParseDatesFromOnly: a faulty variant that lets a malformed event_to pass)
ParseDatesFromOnly(event_from_str, event_to_str) ==
    IF BadIso(event_from_str) THEN <<>>
    ELSE <<FromIso(event_from_str),
           IF BadIso(event_to_str) THEN FromIso(event_from_str)
           ELSE FromIso(event_to_str)>>
ParseDates(event_from_str, event_to_str) ==
    IF BadIso(event_from_str) \/ BadIso(event_to_str) THEN <<>>
    ELSE <<FromIso(event_from_str), FromIso(event_to_str)>>

-----------------------------------------------------------------------------
(* Requests *)

Endpoints == {"create_todo", "get_todos", "complete_todo", "delete_todo",
              "add_reminder", "get_reminders", "delete_reminder",
              "add_calendar_entry", "get_calendar_entries",
              "delete_calendar_entry"}

\* the function name each handler looks for
Expected(endpoint) ==
    CASE endpoint = "create_todo" -> "createTodo"
      [] endpoint = "get_todos" -> "getTodos"
      [] endpoint = "complete_todo" -> "completeTodo"
      [] endpoint = "delete_todo" -> "deleteTodo"
      [] endpoint = "add_reminder" -> "addReminder"
      [] endpoint = "get_reminders" -> "getReminders"
      [] endpoint = "delete_reminder" -> "deleteReminder"
      [] endpoint = "add_calendar_entry" -> "addCalendarEntry"
      [] endpoint = "get_calendar_entries" -> "getCalendarEntries"
      [] endpoint = "delete_calendar_entry" -> "deleteCalendarEntry"

\* a function name the handler of `endpoint` does not look for
Foreign(endpoint) == IF endpoint = "get_todos" THEN "createTodo" ELSE "getTodos"

\* ids a request may name: 0 and the ids rows can have
RequestIds == 0 .. MaxCreates

IdArgs == {EmptyArgs} \cup {[id |-> i] : i \in RequestIds}

TodoArgs == {EmptyArgs,
             [title |-> "Buy milk", description |-> "2 litres"],
             [title |-> PyNone]}

ReminderArgs == {EmptyArgs,
                 [reminder_text |-> "pills", importance |-> "high"],
                 [reminder_text |-> "pills"],
                 [importance |-> "high"],
                 [reminder_text |-> "", importance |-> "high"]}

CalendarArgs ==
    {EmptyArgs,
     [title |-> "Dentist", event_from |-> "2024-01-01T10:00:00",
      event_to |-> "2024-01-01T11:00:00"],
     [title |-> "Dentist", description |-> "checkup",
      event_from |-> "2024-01-01T10:00:00", event_to |-> "2024-01-01T11:00:00"],
     [event_from |-> "2024-01-01T10:00:00", event_to |-> "2024-01-01T11:00:00"],
     [title |-> "Dentist", event_to |-> "2024-01-01T11:00:00"],
     [title |-> "Dentist", event_from |-> "2024-01-01T10:00:00"],
     [title |-> "Dentist", event_from |-> "2024-01-01T10:00:00",
      event_to |-> "not-a-date"],
     [title |-> "Dentist", event_from |-> "not-a-date",
      event_to |-> "2024-01-01T11:00:00"]}

ArgsOf(endpoint) ==
    CASE endpoint = "create_todo" -> TodoArgs
      [] endpoint \in {"complete_todo", "delete_todo", "delete_reminder",
                       "delete_calendar_entry"} -> IdArgs
      [] endpoint = "add_reminder" -> ReminderArgs
      [] endpoint = "add_calendar_entry" -> CalendarArgs
      [] OTHER -> {EmptyArgs}

\* well-formed arguments for a second call to the same function
SecondArgs(endpoint) ==
    CASE endpoint = "create_todo" ->
            [title |-> "Buy milk", description |-> "2 litres"]
      [] endpoint \in {"complete_todo", "delete_todo", "delete_reminder",
                       "delete_calendar_entry"} -> [id |-> 1]
      [] endpoint = "add_reminder" ->
            [reminder_text |-> "water plants", importance |-> "low"]
      [] endpoint = "add_calendar_entry" ->
            [title |-> "Dentist", event_from |-> "2024-01-01T10:00:00",
             event_to |-> "2024-01-01T11:00:00"]
      [] OTHER -> EmptyArgs

\* ToolCallFunction: a call to the endpoint's function, its arguments a dict
\* or JSON text, or a call to another function
Calls(endpoint) ==
    {[name |-> Expected(endpoint), arguments |-> a] :
        a \in ArgsOf(endpoint) \cup {JsonText(SecondArgs(endpoint))}}
Others(endpoint) == {[name |-> Foreign(endpoint), arguments |-> EmptyArgs]}
Later(endpoint) ==
    Others(endpoint) \cup {[name |-> Expected(endpoint),
                            arguments |-> SecondArgs(endpoint)]}

\* Message.toolCalls: up to MaxCalls calls, the i-th with id i; the first call
\* to the endpoint's function takes any of ArgsOf, the calls after it are
\* calls to other functions or repeat the function with SecondArgs
ToolCallLists(endpoint) ==
    LET Seen(g, i) == \E j \in 1..(i-1) : g[j].name = Expected(endpoint)
        Allowed(g, i) == IF Seen(g, i) THEN Later(endpoint)
                         ELSE Calls(endpoint) \cup Others(endpoint)
        Lists(n) == {g \in [1..n -> Calls(endpoint) \cup Later(endpoint)] :
                        \A i \in 1..n : g[i] \in Allowed(g, i)}
    IN  UNION {{[i \in 1..n |-> [id |-> i, function |-> g[i]]] : g \in Lists(n)}
               : n \in 0..MaxCalls}

\* VapiRequest bodies, by endpoint
Requests ==
    UNION {{[endpoint |-> e, toolCalls |-> t] : t \in ToolCallLists(e)}
           : e \in Endpoints}

\* `for tool_call in request.message.toolCalls: if tool_call.function.name == name`:
\* the position of the first call the loop stops at, 0 when it runs to its end
\* (faulty variants: LastMatch stops at the last such call, FirstCall falls
\* back on the first call of the list when none matches)
LastMatch(toolCalls, name) ==
    LET hits == {i \in 1..Len(toolCalls) : toolCalls[i].function.name = name}
    IN  IF hits = {} THEN 0 ELSE CHOOSE i \in hits : \A j \in hits : j <= i
FirstCall(toolCalls, name) ==
    LET hits == {i \in 1..Len(toolCalls) : toolCalls[i].function.name = name}
    IN  IF hits # {} THEN CHOOSE i \in hits : \A j \in hits : i <= j
        ELSE IF Len(toolCalls) > 0 THEN 1 ELSE 0
FirstMatch(toolCalls, name) ==
    LET hits == {i \in 1..Len(toolCalls) : toolCalls[i].function.name = name}
    IN  IF hits = {} THEN 0 ELSE CHOOSE i \in hits : \A j \in hits : i <= j

-----------------------------------------------------------------------------
(* Storage: SQLite tables behind SQLAlchemy sessions *)

Ids(table) == {r.id : r \in table}

Max(S) == CHOOSE x \in S : \A y \in S : y <= x

\* the id an INSERT gives a row of a table whose key is `Column(Integer,
\* primary_key=True)`: a rowid alias without AUTOINCREMENT, so one more than
\* the largest id stored, and 1 in an empty table
NextId(table) == IF table = {} THEN 1 ELSE Max(Ids(table)) + 1

\* db.query(T).filter(T.id == id).first(): the rows found (none or one)
Find(table, id) == {r \in table : r.id = id}

\* db.delete(row); db.commit(): DELETE ... WHERE id = row.id
Delete(table, id) == {r \in table : r.id # id}

\* db.query(T).all(): the rows in rowid order
RECURSIVE All(_)
All(table) ==
    IF table = {} THEN <<>>
    ELSE LET first == CHOOSE r \in table : \A q \in table : r.id <= q.id
         IN  <<first>> \o All(table \ {first})

\* the ISO-8601 text of a datetime in a JSON response
IsoFormat(d) ==
    CASE d = <<2024, 1, 1, 10, 0, 0>> -> "2024-01-01T10:00:00"
      [] d = <<2024, 1, 1, 11, 0, 0>> -> "2024-01-01T11:00:00"

\* TodoResponse.from_orm(todo) raises ValidationError: title is declared str
TodoInvalid(todo) == todo.title = PyNone

\* CalendarEventResponse.from_orm(event).dict() as serialised
CalendarEventDict(event) ==
    [id |-> event.id, title |-> event.title, description |-> event.description,
     event_from |-> IsoFormat(event.event_from),
     event_to |-> IsoFormat(event.event_to)]

-----------------------------------------------------------------------------
(* Responses *)

\* raise HTTPException(status_code, detail); 500 for an unhandled exception
Error(status, detail) == [status |-> status, detail |-> detail, results |-> <<>>]

\* return {'results': [{'toolCallId': tool_call.id, 'result': result}]}
Results(tool_call, result) ==
    [status |-> 200, detail |-> "",
     results |-> <<[toolCallId |-> tool_call.id, result |-> result]>>]

NoRequest == [endpoint |-> "", toolCalls |-> <<>>]
NoResponse == [status |-> 0, detail |-> "", results |-> <<>>]

TableNames == {"todos", "reminders", "calendar_events"}

TotalCreated == created["todos"] + created["reminders"] + created["calendar_events"]

\* the calls of a request that name the function of its endpoint
Matching(r) ==
    {i \in 1..Len(r.toolCalls) : r.toolCalls[i].function.name = Expected(r.endpoint)}

-----------------------------------------------------------------------------
(* Handlers. FastAPI parses the body into a VapiRequest and opens the       *)
(* session (Receive), calls the endpoint's function, which runs to its      *)
(* response in one step, then sends the response and closes the session     *)
(* (Send).                                                                  *)

NotServed == [endpoint |-> "", calls |-> 0, matches |-> 0]

Receive ==
    /\ req = NoRequest
    /\ resp = NoResponse
    /\ \E r \in Requests :
        /\ r.endpoint \in {"create_todo", "add_reminder", "add_calendar_entry"}
              => TotalCreated < MaxCreates
        /\ req' = r
    /\ UNCHANGED <<todos, reminders, calendar_events, resp, dbCalls, served,
                   created, deleted, assigned, completing, repeat, sess>>

Send ==
    /\ resp # NoResponse
    /\ resp' = NoResponse
    /\ dbCalls' = <<>>
    /\ served' = NotServed
    /\ repeat' = FALSE
    /\ UNCHANGED <<todos, reminders, calendar_events, req, created, deleted,
                   assigned, completing, sess>>

\* the request is answered; `done` is the todo id it completed, 0 if none
Answered(done) ==
    /\ req' = NoRequest
    /\ served' = [endpoint |-> req.endpoint, calls |-> Len(req.toolCalls),
                  matches |-> Cardinality(Matching(req))]
    /\ completing' = done
    /\ repeat' = (done # 0 /\ done = completing)
    /\ UNCHANGED sess

\* a request that ends in an exception: nothing was committed
Raise(status, detail, calls) ==
    /\ resp' = Error(status, detail)
    /\ dbCalls' = calls
    /\ Answered(0)
    /\ UNCHANGED <<todos, reminders, calendar_events, created, deleted, assigned>>

Created(table, id) ==
    /\ created' = [created EXCEPT ![table] = @ + 1]
    /\ assigned' = [assigned EXCEPT ![table] = @ \cup {id}]
    /\ UNCHANGED deleted

Deleted(table) ==
    /\ deleted' = [deleted EXCEPT ![table] = @ + 1]
    /\ UNCHANGED <<created, assigned>>

\* todo.completed = True
\* (faulty variants: CompleteToggles flips the flag, CompleteRebuilds drops
\* the description)
CompleteToggles(todo) == [todo EXCEPT !.completed = ~@]
CompleteRebuilds(todo) == [todo EXCEPT !.completed = TRUE, !.description = ""]
Complete(todo) == [todo EXCEPT !.completed = TRUE]

create_todo ==
    /\ req.endpoint = "create_todo"
    /\ LET toolCalls == req.toolCalls
           m == FirstMatch(toolCalls, "createTodo")
       IN  IF m = 0 THEN Raise(400, "Invalid Request", <<>>)
           ELSE LET args == Arguments(toolCalls[m])
                    todo == [id |-> NextId(todos),
                             title |-> Get(args, "title", ""),
                             description |-> Get(args, "description", ""),
                             completed |-> FALSE]
                IN  /\ todos' = todos \cup {todo}
                    /\ resp' = Results(toolCalls[m], "success")
                    /\ dbCalls' = <<"add", "commit", "refresh">>
                    /\ Created("todos", todo.id)
                    /\ Answered(0)
                    /\ UNCHANGED <<reminders, calendar_events>>

get_todos ==
    /\ req.endpoint = "get_todos"
    /\ LET toolCalls == req.toolCalls
           m == FirstMatch(toolCalls, "getTodos")
       IN  IF m = 0 THEN Raise(400, "Invalid Request", <<>>)
           ELSE IF \E todo \in todos : TodoInvalid(todo)
                THEN Raise(500, "Internal Server Error", <<"query">>)
           ELSE /\ resp' = Results(toolCalls[m], All(todos))
                /\ dbCalls' = <<"query">>
                /\ Answered(0)
                /\ UNCHANGED <<todos, reminders, calendar_events,
                               created, deleted, assigned>>

complete_todo ==
    /\ req.endpoint = "complete_todo"
    /\ LET toolCalls == req.toolCalls
           m == FirstMatch(toolCalls, "completeTodo")
       IN  IF m = 0 THEN Raise(400, "Invalid Request", <<>>)
           ELSE LET args == Arguments(toolCalls[m]) IN
                IF NoId(args) THEN Raise(400, "Missing To-Do ID", <<>>)
                ELSE LET found == Find(todos, args["id"]) IN
                     IF found = {} THEN Raise(404, "Todo not found", <<"query">>)
                     ELSE /\ todos' = (todos \ found) \cup {Complete(t) : t \in found}
                          /\ resp' = Results(toolCalls[m], "success")
                          /\ dbCalls' = <<"query", "commit", "refresh">>
                          /\ Answered(args["id"])
                          /\ UNCHANGED <<reminders, calendar_events,
                                         created, deleted, assigned>>

delete_todo ==
    /\ req.endpoint = "delete_todo"
    /\ LET toolCalls == req.toolCalls
           m == FirstMatch(toolCalls, "deleteTodo")
       IN  IF m = 0 THEN Raise(400, "Invalid Request", <<>>)
           ELSE LET args == Arguments(toolCalls[m]) IN
                IF NoId(args) THEN Raise(400, "Missing To-Do ID", <<>>)
                ELSE IF Find(todos, args["id"]) = {}
                     THEN Raise(404, "Todo not found", <<"query">>)
                ELSE /\ todos' = Delete(todos, args["id"])
                     /\ resp' = Results(toolCalls[m], "success")
                     /\ dbCalls' = <<"query", "delete", "commit">>
                     /\ Deleted("todos")
                     /\ Answered(0)
                     /\ UNCHANGED <<reminders, calendar_events>>

add_reminder ==
    /\ req.endpoint = "add_reminder"
    /\ LET toolCalls == req.toolCalls
           m == FirstMatch(toolCalls, "addReminder")
       IN  IF m = 0 THEN Raise(400, "Invalid request", <<>>)
           ELSE LET args == Arguments(toolCalls[m])
                    reminder_text == Get(args, "reminder_text", PyNone)
                    importance == Get(args, "importance", PyNone)
                    reminder == [id |-> NextId(reminders),
                                 reminder_text |-> reminder_text,
                                 importance |-> importance]
                IN  IF Falsy(reminder_text) \/ Falsy(importance)
                    THEN Raise(400, "Missing required fields", <<>>)
                    ELSE /\ reminders' = reminders \cup {reminder}
                         /\ resp' = Results(toolCalls[m], reminder)
                         /\ dbCalls' = <<"add", "commit", "refresh">>
                         /\ Created("reminders", reminder.id)
                         /\ Answered(0)
                         /\ UNCHANGED <<todos, calendar_events>>

get_reminders ==
    /\ req.endpoint = "get_reminders"
    /\ LET toolCalls == req.toolCalls
           m == FirstMatch(toolCalls, "getReminders")
       IN  IF m = 0 THEN Raise(400, "Invalid request", <<>>)
           ELSE /\ resp' = Results(toolCalls[m], All(reminders))
                /\ dbCalls' = <<"query">>
                /\ Answered(0)
                /\ UNCHANGED <<todos, reminders, calendar_events,
                               created, deleted, assigned>>

delete_reminder ==
    /\ req.endpoint = "delete_reminder"
    /\ LET toolCalls == req.toolCalls
           m == FirstMatch(toolCalls, "deleteReminder")
       IN  IF m = 0 THEN Raise(400, "Invalid request", <<>>)
           ELSE LET args == Arguments(toolCalls[m]) IN
                IF NoId(args) THEN Raise(400, "Missing reminder ID", <<>>)
                ELSE IF Find(reminders, args["id"]) = {}
                     THEN Raise(404, "Reminder not found", <<"query">>)
                ELSE /\ reminders' = Delete(reminders, args["id"])
                     /\ resp' = Results(toolCalls[m],
                                        [id |-> args["id"], deleted |-> TRUE])
                     /\ dbCalls' = <<"query", "delete", "commit">>
                     /\ Deleted("reminders")
                     /\ Answered(0)
                     /\ UNCHANGED <<todos, calendar_events>>

add_calendar_entry ==
    /\ req.endpoint = "add_calendar_entry"
    /\ LET toolCalls == req.toolCalls
           m == FirstMatch(toolCalls, "addCalendarEntry")
       IN  IF m = 0 THEN Raise(400, "Invalid request", <<>>)
           ELSE LET args == Arguments(toolCalls[m])
                    title == Get(args, "title", "")
                    description == Get(args, "description", "")
                    event_from_str == Get(args, "event_from", "")
                    event_to_str == Get(args, "event_to", "")
                IN  IF Falsy(title) \/ Falsy(event_from_str) \/ Falsy(event_to_str)
                    THEN Raise(400, "Missing required fields", <<>>)
                    ELSE IF ParseDates(event_from_str, event_to_str) = <<>>
                    THEN Raise(400, "Invalid date format. Use ISO format.", <<>>)
                    ELSE LET dates == ParseDates(event_from_str, event_to_str)
                             calendar_event ==
                                 [id |-> NextId(calendar_events),
                                  title |-> title,
                                  description |-> description,
                                  event_from |-> dates[1],
                                  event_to |-> dates[2]]
                         IN  /\ calendar_events' = calendar_events \cup {calendar_event}
                             /\ resp' = Results(toolCalls[m],
                                                CalendarEventDict(calendar_event))
                             /\ dbCalls' = <<"add", "commit", "refresh">>
                             /\ Created("calendar_events", calendar_event.id)
                             /\ Answered(0)
                             /\ UNCHANGED <<todos, reminders>>

get_calendar_entries ==
    /\ req.endpoint = "get_calendar_entries"
    /\ LET toolCalls == req.toolCalls
           m == FirstMatch(toolCalls, "getCalendarEntries")
           events == All(calendar_events)
       IN  IF m = 0 THEN Raise(400, "Invalid request", <<>>)
           ELSE /\ resp' = Results(toolCalls[m],
                                   [i \in 1..Len(events) |-> CalendarEventDict(events[i])])
                /\ dbCalls' = <<"query">>
                /\ Answered(0)
                /\ UNCHANGED <<todos, reminders, calendar_events,
                               created, deleted, assigned>>

delete_calendar_entry ==
    /\ req.endpoint = "delete_calendar_entry"
    /\ LET toolCalls == req.toolCalls
           m == FirstMatch(toolCalls, "deleteCalendarEntry")
       IN  IF m = 0 THEN Raise(400, "Invalid request", <<>>)
           ELSE LET args == Arguments(toolCalls[m]) IN
                IF NoId(args) THEN Raise(400, "Missing event ID", <<>>)
                ELSE IF Find(calendar_events, args["id"]) = {}
                     THEN Raise(404, "Calendar event not found", <<"query">>)
                ELSE /\ calendar_events' = Delete(calendar_events, args["id"])
                     /\ resp' = Results(toolCalls[m],
                                        [id |-> args["id"], deleted |-> TRUE])
                     /\ dbCalls' = <<"query", "delete", "commit">>
                     /\ Deleted("calendar_events")
                     /\ Answered(0)
                     /\ UNCHANGED <<todos, reminders>>

-----------------------------------------------------------------------------
(* Requests handled one at a time *)

Workers == {1, 2}

Idle == [pc |-> "idle", table |-> "", toolCallId |-> 0, id |-> 0, status |-> 0]

Init ==
    /\ todos = {}
    /\ reminders = {}
    /\ calendar_events = {}
    /\ req = NoRequest
    /\ resp = NoResponse
    /\ dbCalls = <<>>
    /\ served = NotServed
    /\ created = [t \in TableNames |-> 0]
    /\ deleted = [t \in TableNames |-> 0]
    /\ assigned = [t \in TableNames |-> {}]
    /\ completing = 0
    /\ repeat = FALSE
    /\ sess = [w \in Workers |-> Idle]

Next ==
    \/ Receive
    \/ create_todo
    \/ get_todos
    \/ complete_todo
    \/ delete_todo
    \/ add_reminder
    \/ get_reminders
    \/ delete_reminder
    \/ add_calendar_entry
    \/ get_calendar_entries
    \/ delete_calendar_entry
    \/ Send

Spec == Init /\ [][Next]_vars

-----------------------------------------------------------------------------
(* Two delete requests handled at once. Each runs in its own thread with its *)
(* own session; the lookup (db.query ... first()) and the delete-and-commit  *)
(* (db.delete, db.commit) of a request are separate steps.                   *)

Rows(table) ==
    CASE table = "todos" -> todos
      [] table = "reminders" -> reminders
      [] table = "calendar_events" -> calendar_events

TableOf(endpoint) ==
    CASE endpoint = "delete_todo" -> "todos"
      [] endpoint = "delete_reminder" -> "reminders"
      [] endpoint = "delete_calendar_entry" -> "calendar_events"

DeleteRequests ==
    {r \in Requests : r.endpoint \in {"delete_todo", "delete_reminder",
                                       "delete_calendar_entry"}}

\* the handler up to the lookup: find the tool call, read the id
Begin(w) ==
    /\ sess[w].pc = "idle"
    /\ \E r \in DeleteRequests :
        LET m == FirstMatch(r.toolCalls, Expected(r.endpoint)) IN
        sess' = [sess EXCEPT ![w] =
            IF m = 0 \/ NoId(Arguments(r.toolCalls[m]))
            THEN [Idle EXCEPT !.pc = "done", !.table = TableOf(r.endpoint),
                              !.status = 400]
            ELSE [pc |-> "lookup", table |-> TableOf(r.endpoint),
                  toolCallId |-> r.toolCalls[m].id,
                  id |-> Arguments(r.toolCalls[m])["id"], status |-> 0]]
    /\ UNCHANGED <<todos, reminders, calendar_events, req, resp, dbCalls,
                   served, created, deleted, assigned, completing, repeat>>

\* row = db.query(T).filter(T.id == id).first(); 404 if there is none
Lookup(w) ==
    /\ sess[w].pc = "lookup"
    /\ sess' = [sess EXCEPT ![w] =
            IF Find(Rows(sess[w].table), sess[w].id) = {}
            THEN [@ EXCEPT !.pc = "done", !.status = 404]
            ELSE [@ EXCEPT !.pc = "found"]]
    /\ UNCHANGED <<todos, reminders, calendar_events, req, resp, dbCalls,
                   served, created, deleted, assigned, completing, repeat>>

\* db.delete(row); db.commit(); return the acknowledgment. A DELETE that
\* matches no row any more only warns, and the commit succeeds.
DeleteCommit(w) ==
    /\ sess[w].pc = "found"
    /\ todos' = IF sess[w].table = "todos"
                THEN Delete(todos, sess[w].id) ELSE todos
    /\ reminders' = IF sess[w].table = "reminders"
                    THEN Delete(reminders, sess[w].id) ELSE reminders
    /\ calendar_events' = IF sess[w].table = "calendar_events"
                          THEN Delete(calendar_events, sess[w].id)
                          ELSE calendar_events
    /\ sess' = [sess EXCEPT ![w] = [@ EXCEPT !.pc = "done", !.status = 200]]
    /\ Deleted(sess[w].table)
    /\ UNCHANGED <<req, resp, dbCalls, served, completing, repeat>>

\* tables as create requests leave them
Stored(table, n) ==
    CASE table = "todos" ->
            {[id |-> i, title |-> "Buy milk", description |-> "2 litres",
              completed |-> FALSE] : i \in 1..n}
      [] table = "reminders" ->
            {[id |-> i, reminder_text |-> "pills", importance |-> "high"] :
                i \in 1..n}
      [] table = "calendar_events" ->
            {[id |-> i, title |-> "Dentist", description |-> "",
              event_from |-> FromIso("2024-01-01T10:00:00"),
              event_to |-> FromIso("2024-01-01T11:00:00")] : i \in 1..n}

InitConc ==
    /\ \E n \in [TableNames -> 0..MaxCreates] :
        /\ n["todos"] + n["reminders"] + n["calendar_events"] <= MaxCreates
        /\ todos = Stored("todos", n["todos"])
        /\ reminders = Stored("reminders", n["reminders"])
        /\ calendar_events = Stored("calendar_events", n["calendar_events"])
        /\ created = n
        /\ assigned = [t \in TableNames |-> 1..n[t]]
    /\ req = NoRequest
    /\ resp = NoResponse
    /\ dbCalls = <<>>
    /\ served = NotServed
    /\ deleted = [t \in TableNames |-> 0]
    /\ completing = 0
    /\ repeat = FALSE
    /\ sess = [w \in Workers |-> Idle]

NextConc == \E w \in Workers : Begin(w) \/ Lookup(w) \/ DeleteCommit(w)

SpecConc == InitConc /\ [][NextConc]_vars

-----------------------------------------------------------------------------
(* Vocabulary of the properties: what a request asks for, read off the     *)
(* request itself, and what a step did to the tables                       *)

\* the i-th tool call of request r names the function of r's endpoint
Names(r, i) == r.toolCalls[i].function.name = Expected(r.endpoint)

HasMatch(r) == \E i \in 1..Len(r.toolCalls) : Names(r, i)

\* the first tool call in list order that names the endpoint's function
Earliest(r) ==
    r.toolCalls[CHOOSE i \in 1..Len(r.toolCalls) :
                    Names(r, i) /\ \A j \in 1..(i-1) : ~Names(r, j)]

GivenArgs(r) == Arguments(Earliest(r))

Required(endpoint) ==
    CASE endpoint = "create_todo" -> {"title"}
      [] endpoint \in {"complete_todo", "delete_todo", "delete_reminder",
                       "delete_calendar_entry"} -> {"id"}
      [] endpoint = "add_reminder" -> {"reminder_text", "importance"}
      [] endpoint = "add_calendar_entry" -> {"title", "event_from", "event_to"}
      [] OTHER -> {}

CreateEndpoints == {"create_todo", "add_reminder", "add_calendar_entry"}
DeleteEndpoints == {"delete_todo", "delete_reminder", "delete_calendar_entry"}
GetEndpoints == {"get_todos", "get_reminders", "get_calendar_entries"}

Entity(endpoint) ==
    CASE endpoint \in {"create_todo", "get_todos", "complete_todo", "delete_todo"}
            -> "todos"
      [] endpoint \in {"add_reminder", "get_reminders", "delete_reminder"}
            -> "reminders"
      [] OTHER -> "calendar_events"

\* a handler is answering the request req in this step
Handling == req # NoRequest /\ resp = NoResponse

\* the ids of the rows a step inserted, updated or removed in a table
Touched(before, after) == {r.id : r \in (before \ after) \cup (after \ before)}

RowsTouched ==
    Cardinality(Touched(todos, todos'))
        + Cardinality(Touched(reminders, reminders'))
        + Cardinality(Touched(calendar_events, calendar_events'))

\* the rows of a table after the step
RowsAfter(table) ==
    CASE table = "todos" -> todos'
      [] table = "reminders" -> reminders'
      [] table = "calendar_events" -> calendar_events'

-----------------------------------------------------------------------------
(* C1 *)

\* C1: a request whose first matching tool call lacks one of the endpoint's
\* required fields is answered 400 and no row is inserted, changed or removed.
C1_MissingFieldRejected ==
    [][(/\ Handling
        /\ HasMatch(req)
        /\ \E f \in Required(req.endpoint) : f \notin DOMAIN GivenArgs(req))
          => (resp'.status = 400 /\ tables' = tables)]_vars

-----------------------------------------------------------------------------
(* C2 *)

\* C2: a delete request that names an id (0 included) which no stored row of
\* the entity has is answered 404, and the tables stay as they were.
C2_DeleteUnknownIs404 ==
    [][(/\ Handling
        /\ req.endpoint \in DeleteEndpoints
        /\ HasMatch(req)
        /\ "id" \in DOMAIN GivenArgs(req)
        /\ GivenArgs(req)["id"] \notin Ids(Rows(Entity(req.endpoint))))
          => (resp'.status = 404 /\ tables' = tables)]_vars

-----------------------------------------------------------------------------
(* C3 *)

\* C3: a successful create gives the new row an id that no stored row has and
\* that was never given to an earlier row of the entity, deleted ones included.
C3_IdNeverReused ==
    [][(Handling /\ req.endpoint \in CreateEndpoints /\ resp'.status = 200)
          => \A row \in RowsAfter(Entity(req.endpoint)) \ Rows(Entity(req.endpoint)) :
                /\ row.id \notin Ids(Rows(Entity(req.endpoint)))
                /\ row.id \notin assigned[Entity(req.endpoint)]]_vars

-----------------------------------------------------------------------------
(* C4 *)

\* C4: a get request with a matching tool call returns the list of the
\* entity's stored rows, one item per row: as many items as there were
\* successful creates less successful deletes, and none before any create.
C4_GetCountsRows ==
    [][(Handling /\ req.endpoint \in GetEndpoints /\ HasMatch(req))
          => LET table == Entity(req.endpoint) IN
             /\ resp'.status = 200
             /\ Len(resp'.results) = 1
             /\ Len(resp'.results[1].result) = created[table] - deleted[table]
             /\ created[table] = 0 => resp'.results[1].result = <<>>
             /\ {item.id : item \in
                    {resp'.results[1].result[i] :
                        i \in 1..Len(resp'.results[1].result)}} = Ids(Rows(table))]_vars

-----------------------------------------------------------------------------
(* C5 *)

\* C5: when a complete_todo request has just succeeded on a todo, a second
\* complete_todo on the same id succeeds too and leaves the tables as the
\* first call left them, the todo completed.
C5_CompleteIdempotent ==
    [][(/\ Handling
        /\ req.endpoint = "complete_todo"
        /\ HasMatch(req)
        /\ "id" \in DOMAIN GivenArgs(req)
        /\ completing # 0
        /\ GivenArgs(req)["id"] = completing)
          => /\ resp'.status = 200
             /\ resp'.results[1].result = "success"
             /\ tables' = tables
             /\ \E t \in todos' : t.id = completing /\ t.completed]_vars

\* the second of two successive complete_todo requests on one id was answered
C5_Witness ==
    /\ repeat
    /\ served.endpoint = "complete_todo"
    /\ resp.status = 200
    /\ \E t \in todos : t.id = completing /\ t.completed

-----------------------------------------------------------------------------
(* C6 *)

\* C6: a request none of whose tool calls names the endpoint's function is
\* answered 400, whatever other calls it holds, without a session call.
C6_NoMatchIs400 ==
    [][(Handling /\ ~HasMatch(req))
          => (resp'.status = 400 /\ dbCalls' = <<>> /\ tables' = tables)]_vars

\* delete_calendar_entry answered a request full of calls to other functions
\* while an event was stored
C6_Witness ==
    /\ served.endpoint = "delete_calendar_entry"
    /\ served.calls = MaxCalls
    /\ served.matches = 0
    /\ resp.status = 400
    /\ calendar_events # {}

-----------------------------------------------------------------------------
(* C7 *)

\* C7: a request answered 400 or 404 leaves the three tables as they were;
\* add_calendar_entry with a well-formed event_from and a malformed event_to
\* is answered 400 and stores no event; a successful request inserts, updates
\* or removes at most one row.
C7_ErrorsChangeNothing ==
    [][Handling =>
          /\ resp'.status \in {400, 404} => tables' = tables
          /\ (/\ req.endpoint = "add_calendar_entry"
              /\ HasMatch(req)
              /\ Get(GivenArgs(req), "event_from", "") \in IsoDates
              /\ ~Falsy(Get(GivenArgs(req), "event_to", ""))
              /\ Get(GivenArgs(req), "event_to", "") \notin IsoDates)
                => (resp'.status = 400 /\ calendar_events' = calendar_events)
          /\ resp'.status = 200 => RowsTouched <= 1]_vars

\* add_calendar_entry rejected a malformed date while an event was stored
C7_Witness ==
    /\ served.endpoint = "add_calendar_entry"
    /\ resp.status = 400
    /\ resp.detail = "Invalid date format. Use ISO format."
    /\ calendar_events # {}

-----------------------------------------------------------------------------
(* C8 *)

\* what the arguments of the first matching call ask of the tables
AppliesEarliest ==
    LET args == GivenArgs(req) IN
    CASE req.endpoint = "create_todo" ->
            \A row \in todos' \ todos :
                /\ row.title = Get(args, "title", "")
                /\ row.description = Get(args, "description", "")
      [] req.endpoint = "add_reminder" ->
            \A row \in reminders' \ reminders :
                /\ row.reminder_text = args["reminder_text"]
                /\ row.importance = args["importance"]
      [] req.endpoint = "add_calendar_entry" ->
            \A row \in calendar_events' \ calendar_events :
                /\ row.title = args["title"]
                /\ row.description = Get(args, "description", "")
                /\ IsoFormat(row.event_from) = args["event_from"]
                /\ IsoFormat(row.event_to) = args["event_to"]
      [] req.endpoint \in DeleteEndpoints \cup {"complete_todo"} ->
            Touched(Rows(Entity(req.endpoint)), RowsAfter(Entity(req.endpoint)))
                \subseteq {args["id"]}
      [] OTHER -> TRUE

\* C8: a successful response holds one result, whose toolCallId is the id of
\* the first tool call that names the endpoint's function; only that call's
\* arguments reach the tables, in at most one row.
C8_FirstMatchOnly ==
    [][(Handling /\ resp'.status = 200)
          => /\ HasMatch(req)
             /\ Len(resp'.results) = 1
             /\ resp'.results[1].toolCallId = Earliest(req).id
             /\ AppliesEarliest
             /\ RowsTouched <= 1]_vars

\* add_reminder answered a request with two addReminder calls
C8_Witness ==
    /\ served.matches >= 2
    /\ resp.status = 200
    /\ Len(resp.results) = 1
    /\ served.endpoint = "add_reminder"

-----------------------------------------------------------------------------
(* C9 *)

\* C9: a row that stays stored keeps its fields, but for a todo's completed,
\* which is false in a new row and only goes from false to true.
C9_RowsImmutable ==
    [][/\ \A old \in todos : \A new \in todos' :
            old.id = new.id =>
                /\ new.title = old.title
                /\ new.description = old.description
                /\ old.completed => new.completed
       /\ \A new \in todos' : new.id \notin Ids(todos) => ~new.completed
       /\ \A old \in reminders : \A new \in reminders' :
            old.id = new.id => new = old
       /\ \A old \in calendar_events : \A new \in calendar_events' :
            old.id = new.id => new = old]_vars

\* a todo with a description was completed, and a later create_todo succeeded
\* beside it
C9_Witness ==
    /\ served.endpoint = "create_todo"
    /\ resp.status = 200
    /\ \E t \in todos : t.completed /\ t.description # ""
    /\ \E t \in todos : ~t.completed

-----------------------------------------------------------------------------
(* C10 *)

\* C10: of two delete requests handled at once that name the same row, at
\* most one is answered with the acknowledgment; the row is not reported
\* deleted twice.
C10_DeletedOnce ==
    \A v \in Workers : \A w \in Workers :
        (/\ v # w
         /\ sess[v].table = sess[w].table
         /\ sess[v].id = sess[w].id
         /\ sess[v].status = 200)
            => sess[w].status # 200

====
